---- MODULE Spec2Model ----
(***************************************************************************)
(* Model of scraper.py, the static RSS generator for epiotrkow.pl:         *)
(*   fetch_items            listing scan, per-page href dedup, ID_LINK     *)
(*                          filter, dedup by link, detail enrichment, cap  *)
(*   fetch_article_details  JSON-LD -> AMP -> classic HTML, clean-up       *)
(*   build_lead_from_paras  lead assembled from paragraphs, cut at 800     *)
(*   build_rss              the feed document                              *)
(*                                                                         *)
(* Two specifications share the module.  Spec is a whole run               *)
(* (fetch_items, then build_rss).  DetailSpec runs fetch_article_details   *)
(* alone, one numbered section of its body per step, over a wider set of   *)
(* article pages.                                                          *)
(*                                                                         *)
(* Texts are run-length encoded: a text is a sequence of runs              *)
(* [c |-> class, n |-> count] with classes "x" (a word character), " "     *)
(* (whitespace), "." (one of . ! ?) and "ELL" (the ellipsis character), so *)
(* that the lengths the code compares (30, 60, 80, 800) keep their values. *)
(* Python's None and "" are both falsy and the code only ever tests the    *)
(* truth of a lead, so both are the empty text <<>>.                       *)
(***************************************************************************)
EXTENDS Integers, Sequences, FiniteSets, TLC

VARIABLES
    pc,            \* position of the run: scan, enrich, build, written, raised
    page,          \* index into SOURCE_URLS of the next listing page
    items,         \* fetch_items: items, the global scan sequence
    unique,        \* fetch_items: unique
    idx,           \* fetch_items: idx of the enrichment loop (0-based)
    result,        \* the sequence fetch_items returned (and build_rss received)
    doc,           \* the document build_rss returned
    detail_limit,  \* DETAIL_LIMIT
    max_items,     \* MAX_ITEMS
    pagelog,       \* per listing page: the fetch, the anchors, the items and their hrefs
    detlog,        \* per enriched item: the article page its fetch met
    d_pc,          \* fetch_article_details: position
    d_w,           \* fetch_article_details: the article page behind url
    d_pub,         \* fetch_article_details: pub_rfc
    d_lead,        \* fetch_article_details: lead
    d_log          \* fetch_article_details: sources consulted so far, in order

vars == <<pc, page, items, unique, idx, result, doc, detail_limit, max_items,
          pagelog, detlog, d_pc, d_w, d_pub, d_lead, d_log>>

runVars == <<pc, page, items, unique, idx, result, doc, detail_limit, max_items,
             pagelog, detlog>>

detVars == <<d_pc, d_w, d_pub, d_lead, d_log>>

(***************************************************************************)
(* Bounds of the model.                                                    *)
(***************************************************************************)
\* number of listing pages of a run (SOURCE_URLS has 20)
NumPages == 2

\* DETAIL_LIMIT and MAX_ITEMS (both 500 in the source) range over 1..MaxCap
MaxCap == 2

(***************************************************************************)
(* Program constants.                                                      *)
(***************************************************************************)
\* build_lead_from_paras(soup, max_chars=800)
MAX_CHARS == 800

\* len(t) < 30: a paragraph too short to count
MIN_PARA == 30

\* len(j_lead) > 60, len(a_lead) > 60
MIN_LEAD == 60

\* len(lead) < 80 and no terminal punctuation: a teaser, dropped
TEASER_LEN == 80

None == "None"

(***************************************************************************)
(* Texts.                                                                  *)
(***************************************************************************)
Run(c, n) == [c |-> c, n |-> n]

\* n characters of class c, "" when n = 0
Rep(c, n) == IF n > 0 THEN <<Run(c, n)>> ELSE <<>>

\* a + b
Cat(a, b) ==
    IF a = <<>> THEN b
    ELSE IF b = <<>> THEN a
    ELSE IF a[Len(a)].c = b[1].c
         THEN SubSeq(a, 1, Len(a) - 1)
              \o <<Run(b[1].c, a[Len(a)].n + b[1].n)>> \o Tail(b)
         ELSE a \o b

RECURSIVE TLen(_)
\* len(t)
TLen(t) == IF t = <<>> THEN 0 ELSE t[1].n + TLen(Tail(t))

RECURSIVE TTake(_, _)
\* t[:k]
TTake(t, k) ==
    IF t = <<>> \/ k <= 0 THEN <<>>
    ELSE IF t[1].n <= k THEN <<t[1]>> \o TTake(Tail(t), k - t[1].n)
    ELSE <<Run(t[1].c, k)>>

\* " " in t
HasSpace(t) == \E i \in 1..Len(t) : t[i].c = " "

\* t.rsplit(" ", 1)[0], for a t that holds a space: all before the last space
RsplitHead(t) ==
    LET i == CHOOSE k \in 1..Len(t) :
                 t[k].c = " " /\ \A j \in (k + 1)..Len(t) : t[j].c # " "
    IN  SubSeq(t, 1, i - 1) \o Rep(" ", t[i].n - 1)

RECURSIVE RStrip(_)
\* t.rstrip()
RStrip(t) ==
    IF t # <<>> /\ t[Len(t)].c = " " THEN RStrip(SubSeq(t, 1, Len(t) - 1)) ELSE t

RECURSIVE LStrip(_)
\* t.lstrip()
LStrip(t) == IF t # <<>> /\ t[1].c = " " THEN LStrip(Tail(t)) ELSE t

\* t.strip()
Strip(t) == LStrip(RStrip(t))

\* " ".join(t.split()): no outer whitespace, every inner run of it one space
Collapse(t) ==
    LET s == Strip(t)
    IN  [i \in 1..Len(s) |-> IF s[i].c = " " THEN Run(" ", 1) ELSE s[i]]

\* re.search(r"[.!?<ellipsis>]$", t), for a t without a trailing newline
EndsTerminal(t) == t # <<>> /\ t[Len(t)].c \in {".", "ELL"}

RECURSIVE JoinSp(_)
\* " ".join(chunks)
JoinSp(chunks) ==
    IF chunks = <<>> THEN <<>>
    ELSE IF Len(chunks) = 1 THEN chunks[1]
    ELSE Cat(Cat(chunks[1], Rep(" ", 1)), JoinSp(Tail(chunks)))

(***************************************************************************)
(* build_lead_from_paras                                                   *)
(***************************************************************************)
RECURSIVE Chunks(_, _, _)
\* the loop over paras: the chunks kept, given the total so far
Chunks(paras, total, max_chars) ==
    IF paras = <<>> THEN <<>>
    ELSE LET t == Strip(paras[1])
         IN  IF t = <<>> \/ TLen(t) < MIN_PARA
             THEN Chunks(Tail(paras), total, max_chars)
             ELSE IF total + TLen(t) + 1 >= max_chars
                  THEN <<t>>
                  ELSE <<t>> \o Chunks(Tail(paras), total + TLen(t) + 1, max_chars)

\* the tail of build_lead_from_paras: cut an over-long lead at a word boundary
CutLead(lead, max_chars) ==
    IF TLen(lead) > max_chars
    THEN LET cut  == TTake(lead, max_chars)
             head == IF HasSpace(cut) THEN RsplitHead(cut) ELSE cut
         IN  Cat(RStrip(head), Rep("ELL", 1))
    ELSE lead

build_lead_from_paras(paras, max_chars) ==
    LET chunks == Chunks(paras, 0, max_chars)
    IN  IF chunks = <<>> THEN <<>> ELSE CutLead(JoinSp(chunks), max_chars)

(***************************************************************************)
(* Dates.  A raw date is the string the page carries; the tables give what *)
(* datetime.fromisoformat / parse_polish_date and to_rfc2822 make of it.   *)
(* None stands for a missing value and for a parse that raised.            *)
(***************************************************************************)
\* to_rfc2822(datetime.fromisoformat(iso).replace(tzinfo=None)), None when it raises
IsoToRfc(iso) ==
    CASE iso = "2025-09-28T08:00:00"       -> "Sun, 28 Sep 2025 08:00:00 +0000"
      [] iso = "2025-09-27T09:30:00"       -> "Sat, 27 Sep 2025 09:30:00 +0000"
      [] iso = "2025-09-26T07:15:00+02:00" -> "Fri, 26 Sep 2025 07:15:00 +0000"
      [] OTHER                             -> None

parse_polish_date(text) ==
    CASE text = "czw., 25 wrzesnia 2025" -> "Thu, 25 Sep 2025 12:00:00 +0000"
      [] OTHER                           -> None

(***************************************************************************)
(* extract_from_jsonld.  A page's JSON-LD is a sequence of script tags,    *)
(* each the sequence of candidate objects json.loads gave (<<>> for a tag  *)
(* that is empty or does not parse).                                       *)
(***************************************************************************)
\* typ is a string and "Article" in typ
IsArticleType(typ) == typ \in {"Article", "NewsArticle"}

JObj(typ, dp, body, desc) == [typ |-> typ, dp |-> dp, body |-> body, desc |-> desc]

RECURSIVE ExtractObjs(_, _, _)
\* the loop over candidates: [pub, lead] after it, given pub_rfc and lead before it
ExtractObjs(objs, pub, lead) ==
    IF objs = <<>> THEN [pub |-> pub, lead |-> lead]
    ELSE LET obj  == objs[1]
             pub1 == IF obj.dp # None /\ pub = None THEN IsoToRfc(obj.dp) ELSE pub
             txt  == IF obj.body # <<>> THEN obj.body ELSE obj.desc
             ld1  == IF txt # <<>> /\ lead = <<>> THEN Collapse(txt) ELSE lead
         IN  IF ~IsArticleType(obj.typ)
             THEN ExtractObjs(Tail(objs), pub, lead)
             ELSE ExtractObjs(Tail(objs), pub1, ld1)

RECURSIVE extract_from_jsonld(_)
extract_from_jsonld(tags) ==
    IF tags = <<>> THEN [pub |-> None, lead |-> <<>>]
    ELSE LET r == ExtractObjs(tags[1], None, <<>>)
         IN  IF r.pub # None \/ r.lead # <<>> THEN r
             ELSE extract_from_jsonld(Tail(tags))

(***************************************************************************)
(* fetch_article_details, one operator per numbered section of its body.   *)
(* s = [pc, pub, lead, log]: the position, pub_rfc, lead and the sources   *)
(* consulted so far.  An article page w is                                 *)
(*   ok         the GET of the primary page succeeded                      *)
(*   jsonld     its JSON-LD tags                                           *)
(*   amp        "none": no <link rel=amphtml href>; "ok" / "fail": the     *)
(*              GET of the AMP page; "badhref": urljoin(url, href) raises  *)
(*              ValueError (href "//[")                                    *)
(*   amp_jsonld, amp_paras   the AMP page                                  *)
(*   meta_date  content of the first publish-time meta tag, None if none   *)
(*   date_el    text of .news-date or <time>, None if none                 *)
(*   paras      texts of the paragraphs the selectors of                   *)
(*              build_lead_from_paras match                                *)
(*   meta_desc  content of <meta name=description>, <<>> if none           *)
(***************************************************************************)
DState(p, pub, lead, log) == [pc |-> p, pub |-> pub, lead |-> lead, log |-> log]

DStart == DState("start", None, <<>>, <<>>)

\* 0) the primary page
StepPrimary(w, s) ==
    IF w.ok
    THEN DState("jsonld", None, <<>>, Append(s.log, "fetch_primary"))
    ELSE DState("ret", None, <<>>, Append(s.log, "fetch_primary"))

\* 1) JSON-LD
StepJsonLd(w, s) ==
    LET j == extract_from_jsonld(w.jsonld)
    IN  DState("amp",
               IF j.pub # None THEN j.pub ELSE s.pub,
               IF j.lead # <<>> /\ TLen(j.lead) > MIN_LEAD THEN j.lead ELSE s.lead,
               Append(s.log, "jsonld"))

\* StepAmp with the guard "if not pub_rfc or not lead" and the two inner
\* "if not ..." tests lost: the AMP page is always tried and its values win
StepAmp_always(w, s) ==
    IF w.amp # "none"
    THEN CASE w.amp = "badhref" -> DState("raised", s.pub, s.lead, s.log)
           [] w.amp = "fail" -> DState("html", s.pub, s.lead, Append(s.log, "fetch_amp"))
           [] OTHER ->
                LET a_pub  == extract_from_jsonld(w.amp_jsonld).pub
                    a_lead == build_lead_from_paras(w.amp_paras, MAX_CHARS)
                IN  DState("html",
                           IF a_pub # None THEN a_pub ELSE s.pub,
                           IF a_lead # <<>> /\ TLen(a_lead) > MIN_LEAD
                           THEN a_lead ELSE s.lead,
                           s.log \o <<"fetch_amp", "amp_date", "amp_lead">>)
    ELSE DState("html", s.pub, s.lead, s.log)

\* 2) AMP
StepAmp(w, s) ==
    IF (s.pub = None \/ s.lead = <<>>) /\ w.amp # "none"
    THEN CASE w.amp = "badhref" ->
                \* urljoin raises inside the try; the handler reads amp_url,
                \* which was never bound: UnboundLocalError leaves the function
                DState("raised", s.pub, s.lead, s.log)
           [] w.amp = "fail" ->
                DState("html", s.pub, s.lead, Append(s.log, "fetch_amp"))
           [] OTHER ->
                LET a_pub  == extract_from_jsonld(w.amp_jsonld).pub
                    a_lead == build_lead_from_paras(w.amp_paras, MAX_CHARS)
                    log1   == Append(s.log, "fetch_amp")
                    log2   == IF s.pub = None THEN Append(log1, "amp_date") ELSE log1
                    log3   == IF s.lead = <<>> THEN Append(log2, "amp_lead") ELSE log2
                IN  DState("html",
                           IF s.pub = None /\ a_pub # None THEN a_pub ELSE s.pub,
                           IF s.lead = <<>> /\ a_lead # <<>> /\ TLen(a_lead) > MIN_LEAD
                           THEN a_lead ELSE s.lead,
                           log3)
    ELSE DState("html", s.pub, s.lead, s.log)

\* StepHtml without the fallback to <meta name=description>
StepHtml_nometa(w, s) ==
    LET m_pub == IF w.meta_date # None THEN IsoToRfc(w.meta_date) ELSE None
        e_pub == IF w.date_el # None THEN parse_polish_date(w.date_el) ELSE None
        pub1  == IF s.pub # None THEN s.pub
                 ELSE IF m_pub # None THEN m_pub ELSE e_pub
        log1  == IF s.pub # None THEN s.log
                 ELSE IF m_pub # None THEN Append(s.log, "meta_date")
                 ELSE s.log \o <<"meta_date", "date_el">>
    IN  DState("post", pub1,
               IF s.lead # <<>> THEN s.lead
               ELSE build_lead_from_paras(w.paras, MAX_CHARS),
               IF s.lead # <<>> THEN log1 ELSE Append(log1, "paras"))

\* 3) classic HTML: meta + paragraphs
StepHtml(w, s) ==
    LET m_pub == IF w.meta_date # None THEN IsoToRfc(w.meta_date) ELSE None
        e_pub == IF w.date_el # None THEN parse_polish_date(w.date_el) ELSE None
        pub1  == IF s.pub # None THEN s.pub
                 ELSE IF m_pub # None THEN m_pub ELSE e_pub
        log1  == IF s.pub # None THEN s.log
                 ELSE IF m_pub # None THEN Append(s.log, "meta_date")
                 ELSE s.log \o <<"meta_date", "date_el">>
        p_lead == build_lead_from_paras(w.paras, MAX_CHARS)
        lead1 == IF s.lead # <<>> THEN s.lead
                 ELSE IF p_lead # <<>> THEN p_lead ELSE Strip(w.meta_desc)
        log2  == IF s.lead # <<>> THEN log1
                 ELSE IF p_lead # <<>> THEN Append(log1, "paras")
                 ELSE log1 \o <<"paras", "meta_desc">>
    IN  DState("post", pub1, lead1, log2)

\* the clean-up before the return
StepPost(w, s) ==
    LET c == Collapse(s.lead)
    IN  DState("ret", s.pub,
               IF s.lead # <<>> /\ TLen(c) < TEASER_LEN /\ ~EndsTerminal(c)
               THEN <<>> ELSE c,
               s.log)

DStep(w, s) ==
    CASE s.pc = "start"  -> StepPrimary(w, s)
      [] s.pc = "jsonld" -> StepJsonLd(w, s)
      [] s.pc = "amp"    -> StepAmp(w, s)
      [] s.pc = "html"   -> StepHtml(w, s)
      [] s.pc = "post"   -> StepPost(w, s)

RECURSIVE DRun(_, _)
DRun(w, s) == IF s.pc \in {"ret", "raised"} THEN s ELSE DRun(w, DStep(w, s))

\* fetch_article_details(url), w the page behind url: pc = "ret" with the
\* pair returned, or pc = "raised"
fetch_article_details(w) == DRun(w, DStart)

(***************************************************************************)
(* The listing pass.  An href is a sequence of characters; a link is the   *)
(* site origin followed by the characters of the resolved path.            *)
(***************************************************************************)
SITE == "https://epiotrkow.pl"

\* the prefix of a[href^='/news/'] and of ID_LINK
NEWS == <<"/", "n", "e", "w", "s", "/">>

Digits == {"0", "1", "2", "3", "4", "5", "6", "7", "8", "9"}

StartsWith(h, pre) == Len(h) >= Len(pre) /\ SubSeq(h, 1, Len(pre)) = pre

\* ID_LINK.match(href), ID_LINK = ^/news/.+,\d+$ : "." is any character but a
\* newline, and "$" is the end or the place before a last newline
IdLinkMatch(h) ==
    \E e \in {Len(h)} \cup {n \in {Len(h) - 1} : Len(h) > 0 /\ h[Len(h)] = "\n"} :
        /\ StartsWith(h, NEWS)
        /\ \E k \in (Len(NEWS) + 2)..(e - 1) :
              /\ h[k] = ","
              /\ \A j \in (Len(NEWS) + 1)..(k - 1) : h[j] # "\n"
              /\ \A j \in (k + 1)..e : h[j] \in Digits

\* urlsplit drops tab, CR and LF from the reference
StripUnsafe(h) == SelectSeq(h, LAMBDA ch : ch \notin {"\t", "\r", "\n"})

RECURSIVE Segments(_, _)
\* the path split at "/": cur is the segment being read
Segments(h, cur) ==
    IF h = <<>> THEN <<cur>>
    ELSE IF h[1] = "/" THEN <<cur>> \o Segments(Tail(h), <<>>)
    ELSE Segments(Tail(h), Append(cur, h[1]))

RECURSIVE ResolveDots(_, _)
\* "." segments dropped, ".." segments take the segment before them along
ResolveDots(segs, out) ==
    IF segs = <<>> THEN out
    ELSE IF segs[1] = <<".">> THEN ResolveDots(Tail(segs), out)
    ELSE IF segs[1] = <<".", ".">>
         THEN ResolveDots(Tail(segs),
                          IF out = <<>> THEN out ELSE SubSeq(out, 1, Len(out) - 1))
    ELSE ResolveDots(Tail(segs), Append(out, segs[1]))

RECURSIVE JoinPath(_)
JoinPath(segs) ==
    IF segs = <<>> THEN <<>> ELSE <<"/">> \o segs[1] \o JoinPath(Tail(segs))

\* urljoin(SITE, href) for an href that is an absolute path without query or
\* fragment (every href that passes the selectors begins with /news/)
urljoin(href) ==
    <<SITE>> \o JoinPath(ResolveDots(Tail(Segments(StripUnsafe(href), <<>>)), <<>>))

\* hashlib.sha1(link.encode("utf-8")).hexdigest(): a function of the link alone
Sha1(link) == <<"sha1", link>>

(***************************************************************************)
(* An anchor of a listing page:                                            *)
(*   href        the attribute (<<>> when the anchor has none)             *)
(*   cls         the classes among .tn-img, .bg-white of its ancestors     *)
(*   tn_title    text of a .tn-title descendant, "" if none                *)
(*   text        a.get_text(" ", strip=True)                               *)
(*   next_title  text of the next element of class tn-title, "" if none    *)
(*   alt         alt of an <img> inside the anchor, "" if none             *)
(*   imgs        data-src or src of the <img> found at each place          *)
(*               find_image_url looks, in its order ("" where there is no  *)
(*               image or no source)                                       *)
(***************************************************************************)
ARTICLE_LINK_SELECTORS == <<".tn-img", ".bg-white", "">>

\* the anchor is one of soup.select(sel)
SelMatches(sel, a) == StartsWith(a.href, NEWS) /\ (sel = "" \/ sel \in a.cls)

RECURSIVE CollectFrom(_, _)
CollectFrom(sels, anchors) ==
    IF sels = <<>> THEN <<>>
    ELSE SelectSeq(anchors, LAMBDA a : SelMatches(sels[1], a))
         \o CollectFrom(Tail(sels), anchors)

RECURSIVE FirstNonEmpty(_, _)
FirstNonEmpty(sels, anchors) ==
    IF sels = <<>> THEN <<>>
    ELSE LET found == SelectSeq(anchors, LAMBDA a : SelMatches(sels[1], a))
         IN  IF found # <<>> THEN found ELSE FirstNonEmpty(Tail(sels), anchors)

\* CollectAnchors that stops at the first selector with a match
CollectAnchors_first(anchors) == FirstNonEmpty(ARTICLE_LINK_SELECTORS, anchors)

\* anchors after the loop over ARTICLE_LINK_SELECTORS
CollectAnchors(anchors) == CollectFrom(ARTICLE_LINK_SELECTORS, anchors)

RECURSIVE DedupHref(_, _)
\* clean: the anchors with an href, the first one of every href
DedupHref(anchors, seen_href) ==
    IF anchors = <<>> THEN <<>>
    ELSE IF anchors[1].href = <<>> \/ anchors[1].href \in seen_href
         THEN DedupHref(Tail(anchors), seen_href)
         ELSE <<anchors[1]>>
              \o DedupHref(Tail(anchors), seen_href \cup {anchors[1].href})

\* the title chain (h5.tn-title is a .tn-title: the second try finds nothing
\* the first did not)
ResolveTitle(a) ==
    IF a.tn_title # "" THEN a.tn_title
    ELSE IF a.text # "" THEN a.text
    ELSE IF a.next_title # "" THEN a.next_title
    ELSE IF a.alt # "" THEN a.alt
    ELSE "Bez tytulu"

IsDataUrl(src) == src = "data:image/gif;base64,R0"

\* urljoin(site_base, src); urlsplit raises ValueError on "//["
ImgUrlJoin(src) ==
    CASE src = "/img/a.jpg"  -> "https://epiotrkow.pl/img/a.jpg"
      [] src = "/img/b.webp" -> "https://epiotrkow.pl/img/b.webp"
      [] src = "/img/c"      -> "https://epiotrkow.pl/img/c"
      [] OTHER               -> "ValueError"

RECURSIVE find_image_url(_)
\* over a.imgs: the first usable source joined to the site, None without one
find_image_url(imgs) ==
    IF imgs = <<>> THEN None
    ELSE IF imgs[1] # "" /\ ~IsDataUrl(imgs[1]) THEN ImgUrlJoin(imgs[1])
    ELSE find_image_url(Tail(imgs))

guess_mime(url) ==
    CASE url = "https://epiotrkow.pl/img/a.jpg"  -> "image/jpeg"
      [] url = "https://epiotrkow.pl/img/b.webp" -> "image/webp"
      [] OTHER                                   -> "image/*"

\* the dict appended to items
MakeItem(a) ==
    LET link    == urljoin(a.href)
        img_url == find_image_url(a.imgs)
    IN  [title |-> ResolveTitle(a), link |-> link, guid |-> Sha1(link),
         image |-> img_url,
         mime  |-> IF img_url # None THEN guess_mime(img_url) ELSE None]

RECURSIVE ItemsOf(_)
\* the loop over clean: [raised, items, hrefs], hrefs[i] the href items[i] was
\* made from; an exception of find_image_url is not caught
ItemsOf(clean) ==
    IF clean = <<>> THEN [raised |-> FALSE, items |-> <<>>, hrefs |-> <<>>]
    ELSE IF ~IdLinkMatch(clean[1].href) THEN ItemsOf(Tail(clean))
    ELSE IF find_image_url(clean[1].imgs) = "ValueError"
         THEN [raised |-> TRUE, items |-> <<>>, hrefs |-> <<>>]
         ELSE LET rest == ItemsOf(Tail(clean))
              IN  IF rest.raised THEN rest
                  ELSE [raised |-> FALSE,
                        items  |-> <<MakeItem(clean[1])>> \o rest.items,
                        hrefs  |-> <<clean[1].href>> \o rest.hrefs]

\* the body of the loop over SOURCE_URLS for a page that was fetched
PageItems(anchors) == ItemsOf(DedupHref(CollectAnchors(anchors), {}))

\* Dedup without seen.add: nothing is ever seen
Dedup_noadd(its, seen) == SelectSeq(its, LAMBDA it : it.link \notin seen)

RECURSIVE Dedup_last(_, _)
\* Dedup that keeps the last item of a link, not the first
Dedup_last(its, seen) ==
    IF its = <<>> THEN <<>>
    ELSE IF \E j \in 2..Len(its) : its[j].link = its[1].link
         THEN Dedup_last(Tail(its), seen)
         ELSE <<its[1]>> \o Dedup_last(Tail(its), seen)

RECURSIVE Dedup(_, _)
\* the dedup by link: unique, given items and seen
Dedup(its, seen) ==
    IF its = <<>> THEN <<>>
    ELSE IF its[1].link \in seen THEN Dedup(Tail(its), seen)
    ELSE <<its[1]>> \o Dedup(Tail(its), seen \cup {its[1].link})

(***************************************************************************)
(* The enrichment loop and the return of fetch_items.                      *)
(***************************************************************************)
\* it[k] = v
WithField(it, k, v) == [f \in DOMAIN it \cup {k} |-> IF f = k THEN v ELSE it[f]]

\* ApplyDetails without the two truth tests: both keys are always set
ApplyDetails_always(it, pub, lead) ==
    WithField(WithField(it, "pubDate", pub), "lead", lead)

\* if pub: it["pubDate"] = pub; if lead: it["lead"] = lead
ApplyDetails(it, pub, lead) ==
    LET it1 == IF pub # None THEN WithField(it, "pubDate", pub) ELSE it
    IN  IF lead # <<>> THEN WithField(it1, "lead", lead) ELSE it1

\* EnrichGoesOn with "idx > DETAIL_LIMIT" for "idx >= DETAIL_LIMIT"
EnrichGoesOn_late(n, i, limit) == i < n /\ ~(i > limit)

\* the enrichment loop goes on: there is an item at idx and idx < DETAIL_LIMIT
EnrichGoesOn(n, i, limit) == i < n /\ ~(i >= limit)

\* unique[:MAX_ITEMS]
Truncate(seq, cap) == SubSeq(seq, 1, IF Len(seq) < cap THEN Len(seq) ELSE cap)

(***************************************************************************)
(* build_rss.  The document is its lastBuildDate and, per item, the fields *)
(* of the <item> element.  items are dicts passed by reference, so the     *)
(* items after the call are part of what the function does.                *)
(***************************************************************************)
Entry(it, build_date) ==
    [title       |-> it.title,
     link        |-> it.link,
     guid        |-> it.guid,
     pubDate     |-> IF "pubDate" \in DOMAIN it THEN it.pubDate ELSE build_date,
     img_html    |-> it.image,
     lead_text   |-> IF "lead" \in DOMAIN it THEN it.lead ELSE it.title,
     enclosure   |-> IF it.image # None THEN <<it.image, it.mime>> ELSE None]

\* build_rss with it.setdefault("pubDate", build_date) for it.get(...)
build_rss_setdefault(its, build_date) ==
    [doc   |-> [lastBuildDate |-> build_date,
                entries       |-> [i \in 1..Len(its) |-> Entry(its[i], build_date)]],
     items |-> [i \in 1..Len(its) |->
                   IF "pubDate" \in DOMAIN its[i] THEN its[i]
                   ELSE WithField(its[i], "pubDate", build_date)]]

build_rss(its, build_date) ==
    [doc   |-> [lastBuildDate |-> build_date,
                entries       |-> [i \in 1..Len(its) |-> Entry(its[i], build_date)]],
     items |-> its]

(***************************************************************************)
(* The pages a run may meet.                                               *)
(***************************************************************************)
Anchor(href, cls, tn_title, text, next_title, alt, imgs) ==
    [href |-> href, cls |-> cls, tn_title |-> tn_title, text |-> text,
     next_title |-> next_title, alt |-> alt, imgs |-> imgs]

\* the big tile: the link wraps the image, the title follows it
A_tile == Anchor(NEWS \o <<"a", ",", "1">>, {".tn-img"}, "", "", "Tytul A", "",
                 <<"/img/a.jpg">>)

\* the title link of the same tile, same href
A_tile2 == Anchor(NEWS \o <<"a", ",", "1">>, {".bg-white"}, "Tytul A", "Tytul A", "", "",
                  <<"", "/img/a.jpg">>)

A_small == Anchor(NEWS \o <<"b", ",", "2">>, {".bg-white"}, "Tytul B", "Tytul B", "", "",
                  <<"data:image/gif;base64,R0", "/img/b.webp">>)

\* a plain text link, matched by the fallback selector alone
A_plain == Anchor(NEWS \o <<"c", ",", "3", "7">>, {}, "", "Tytul C", "", "", <<>>)

\* the pagination link /news/w-p2
A_pager == Anchor(NEWS \o <<"w", "-", "p", "2">>, {}, "", "2", "", "", <<>>)

\* article a again, under another href that resolves to the same link
A_dot == Anchor(NEWS \o <<".", "/", "a", ",", "1">>, {}, "", "Tytul A (skrot)", "", "",
                <<"", "", "/img/c">>)

\* a link outside /news/
A_sport == Anchor(<<"/", "s", "/", "x", ",", "9">>, {".bg-white"}, "Sport", "Sport", "",
                  "", <<>>)

\* article b again, an empty link before its tile
A_bare == Anchor(NEWS \o <<"b", ",", "2">>, {}, "", "", "", "", <<>>)

\* an article whose image source is "//["
A_badimg == Anchor(NEWS \o <<"d", ",", "4">>, {".bg-white"}, "Tytul D", "Tytul D", "", "",
                   <<"//[">>)

\* the anchors of the listing pages that can be fetched
ListingPages ==
    { <<A_tile, A_tile2, A_pager, A_small>>,
      <<A_dot, A_plain, A_sport, A_tile2>>,
      <<A_bare, A_plain, A_small>>,
      <<A_badimg>> }

X(n) == Run("x", n)

SP(n) == Run(" ", n)

DOT == Run(".", 1)

T_body == <<X(2000), SP(1), X(2998), DOT>>

T_teaser == <<X(30), SP(1), X(39)>>

T_teaser_dot == <<X(30), SP(1), X(38), DOT>>

T_short == <<X(20), SP(1), X(19)>>

T_desc == <<X(50), SP(2), X(47), DOT>>

P_short == <<X(10)>>

P_400 == <<SP(2), X(300), SP(1), X(99), DOT, SP(1)>>

P_500 == <<X(250), SP(1), X(200), SP(1), X(48), DOT>>

P_50 == <<X(25), SP(1), X(24)>>

P_100 == <<X(60), SP(1), X(38), DOT>>

P_65 == <<X(30), SP(1), X(34)>>

P_900 == <<X(900)>>

D_150 == <<SP(1), X(100), SP(3), X(46), DOT>>

D_40 == <<X(40)>>

D_1000 == <<X(500), SP(1), X(498), DOT>>

ISO_J == "2025-09-28T08:00:00"

ISO_A == "2025-09-27T09:30:00"

ISO_M == "2025-09-26T07:15:00+02:00"

J_full == << <<JObj("NewsArticle", ISO_J, T_body, T_desc)>> >>

J_teaser == << <<JObj("NewsArticle", None, <<>>, T_teaser)>> >>

J_teaser_dot == << <<JObj("Article", None, <<>>, T_teaser_dot)>> >>

J_short == << <<JObj("NewsArticle", ISO_J, <<>>, T_short)>> >>

J_date == << <<>>,
             <<JObj("BreadcrumbList", ISO_A, <<>>, T_desc)>>,
             <<JObj(None, ISO_A, T_body, <<>>), JObj("NewsArticle", ISO_J, <<>>, <<>>)>> >>

J_lead == << <<JObj("NewsArticle", "28.09.2025", <<>>, T_desc)>> >>

J_amp == << <<JObj("NewsArticle", ISO_A, T_body, <<>>)>> >>

ArticlePage(ok, jsonld, amp, amp_jsonld, amp_paras, meta_date, date_el, paras, meta_desc) ==
    [ok |-> ok, jsonld |-> jsonld, amp |-> amp, amp_jsonld |-> amp_jsonld,
     amp_paras |-> amp_paras, meta_date |-> meta_date, date_el |-> date_el,
     paras |-> paras, meta_desc |-> meta_desc]

\* the article pages of DetailSpec
DetailPages ==
    { ArticlePage(TRUE, j, a[1], a[2], a[3], m, e, p, d) :
        j \in {<<>>, J_full, J_teaser, J_teaser_dot, J_short, J_date, J_lead},
        a \in ({<<"none", <<>>, <<>>>>, <<"fail", <<>>, <<>>>>, <<"badhref", <<>>, <<>>>>}
               \cup {<<"ok", aj, ap>> : aj \in {<<>>, J_amp},
                                      ap \in {<<>>, <<P_short, P_100>>, <<P_65, P_short>>}}),
        m \in {None, ISO_M, "28.09.2025"},
        e \in {None, "czw., 25 wrzesnia 2025", "wczoraj"},
        p \in {<<>>, <<P_short>>, <<P_400, P_500>>, <<P_50>>, <<P_100>>, <<P_900>>},
        d \in {<<>>, D_150, D_40, D_1000} }
    \cup { ArticlePage(FALSE, <<>>, "none", <<>>, <<>>, None, None, <<>>, <<>>) }

\* the article pages of a whole run
W_fail == ArticlePage(FALSE, <<>>, "none", <<>>, <<>>, None, None, <<>>, <<>>)

W_full == ArticlePage(TRUE, J_full, "ok", J_amp, <<P_100>>, ISO_M, None, <<P_100>>, D_150)

W_paras == ArticlePage(TRUE, <<>>, "fail", <<>>, <<>>, ISO_M, None, <<P_400, P_500>>, <<>>)

W_none == ArticlePage(TRUE, <<>>, "none", <<>>, <<>>, None, "wczoraj", <<P_short>>, <<>>)

W_teaser == ArticlePage(TRUE, J_teaser, "none", <<>>, <<>>, None,
                        "czw., 25 wrzesnia 2025", <<P_100>>, D_150)

W_amp == ArticlePage(TRUE, J_short, "ok", J_amp, <<P_short, P_100>>, None, None,
                     <<P_400>>, <<>>)

W_badamp == ArticlePage(TRUE, J_date, "badhref", <<>>, <<>>, None, None, <<P_100>>, <<>>)

RunPages == {W_fail, W_full, W_paras, W_none, W_teaser, W_amp, W_badamp}

\* time.gmtime() when build_rss runs
BuildDates == {"Thu, 05 Nov 2026 10:00:00 +0000", "Thu, 05 Nov 2026 11:00:00 +0000"}

(***************************************************************************)
(* Spec: one run of the program, fetch_items and then build_rss.           *)
(***************************************************************************)
DetIdle ==
    /\ d_pc = "idle" /\ d_w = W_fail /\ d_pub = None /\ d_lead = <<>> /\ d_log = <<>>

RunIdle ==
    /\ pc = "idle" /\ page = 1 /\ items = <<>> /\ unique = <<>> /\ idx = 0
    /\ result = <<>> /\ doc = None /\ detail_limit = 1 /\ max_items = 1
    /\ pagelog = <<>> /\ detlog = <<>>

\* DETAIL_LIMIT and MAX_ITEMS are module constants, both 500; a run is checked
\* for every pair of values in 1..MaxCap, the equal ones included
Init ==
    /\ pc = "scan"
    /\ page = 1
    /\ items = <<>>
    /\ unique = <<>>
    /\ idx = 0
    /\ result = <<>>
    /\ doc = None
    /\ detail_limit \in 1..MaxCap
    /\ max_items \in 1..MaxCap
    /\ pagelog = <<>>
    /\ detlog = <<>>
    /\ DetIdle

\* the GET of a listing page fails: [WARN], continue
ListingFails ==
    /\ pc = "scan" /\ page <= NumPages
    /\ page' = page + 1
    /\ pagelog' = Append(pagelog, [ok |-> FALSE, anchors |-> <<>>, items |-> <<>>,
                                   hrefs |-> <<>>])
    /\ UNCHANGED <<pc, items, unique, idx, result, doc, detail_limit, max_items, detlog>>
    /\ UNCHANGED detVars

\* a listing page is fetched and scanned
ScanPage ==
    /\ pc = "scan" /\ page <= NumPages
    /\ \E anchors \in ListingPages :
          LET r == PageItems(anchors)
          IN  IF r.raised
              THEN /\ pc' = "raised"
                   /\ UNCHANGED <<page, items, pagelog>>
              ELSE /\ items' = items \o r.items
                   /\ page' = page + 1
                   /\ pagelog' = Append(pagelog, [ok |-> TRUE, anchors |-> anchors,
                                                  items |-> r.items,
                                                  hrefs |-> r.hrefs])
                   /\ pc' = pc
    /\ UNCHANGED <<unique, idx, result, doc, detail_limit, max_items, detlog>>
    /\ UNCHANGED detVars

\* after the last listing page: the dedup by link
DedupItems ==
    /\ pc = "scan" /\ page > NumPages
    /\ unique' = Dedup(items, {})
    /\ idx' = 0
    /\ pc' = "enrich"
    /\ UNCHANGED <<page, items, result, doc, detail_limit, max_items, pagelog, detlog>>
    /\ UNCHANGED detVars

\* one turn of the enrichment loop
Enrich ==
    /\ pc = "enrich" /\ EnrichGoesOn(Len(unique), idx, detail_limit)
    /\ \E w \in RunPages :
          LET r == fetch_article_details(w)
          IN  /\ detlog' = Append(detlog, w)
              /\ IF r.pc = "raised"
                 THEN /\ pc' = "raised"
                      /\ UNCHANGED <<unique, idx>>
                 ELSE /\ unique' = [unique EXCEPT
                                      ![idx + 1] = ApplyDetails(@, r.pub, r.lead)]
                      /\ idx' = idx + 1
                      /\ pc' = pc
    /\ UNCHANGED <<page, items, result, doc, detail_limit, max_items, pagelog>>
    /\ UNCHANGED detVars

\* return unique[:MAX_ITEMS]
Return ==
    /\ pc = "enrich" /\ ~EnrichGoesOn(Len(unique), idx, detail_limit)
    /\ result' = Truncate(unique, max_items)
    /\ pc' = "build"
    /\ UNCHANGED <<page, items, unique, idx, doc, detail_limit, max_items, pagelog, detlog>>
    /\ UNCHANGED detVars

\* rss = build_rss(items), and feed.xml is written
BuildRss ==
    /\ pc = "build"
    /\ \E now \in BuildDates :
          LET r == build_rss(result, now)
          IN  /\ doc' = r.doc
              /\ result' = r.items
    /\ pc' = "written"
    /\ UNCHANGED <<page, items, unique, idx, detail_limit, max_items, pagelog, detlog>>
    /\ UNCHANGED detVars

Next == ListingFails \/ ScanPage \/ DedupItems \/ Enrich \/ Return \/ BuildRss

Spec == Init /\ [][Next]_vars

(***************************************************************************)
(* DetailSpec: one call of fetch_article_details, section by section.      *)
(***************************************************************************)
DetailInit ==
    /\ RunIdle
    /\ d_pc = "start"
    /\ d_w \in DetailPages
    /\ d_pub = None
    /\ d_lead = <<>>
    /\ d_log = <<>>

DCur == DState(d_pc, d_pub, d_lead, d_log)

DSet(s) ==
    /\ d_pc' = s.pc
    /\ d_pub' = s.pub
    /\ d_lead' = s.lead
    /\ d_log' = s.log
    /\ UNCHANGED d_w
    /\ UNCHANGED runVars

D_Primary == d_pc = "start" /\ DSet(StepPrimary(d_w, DCur))

D_JsonLd == d_pc = "jsonld" /\ DSet(StepJsonLd(d_w, DCur))

D_Amp == d_pc = "amp" /\ DSet(StepAmp(d_w, DCur))

D_Html == d_pc = "html" /\ DSet(StepHtml(d_w, DCur))

D_Post == d_pc = "post" /\ DSet(StepPost(d_w, DCur))

DetailNext == D_Primary \/ D_JsonLd \/ D_Amp \/ D_Html \/ D_Post

DetailSpec == DetailInit /\ [][DetailNext]_vars

(***************************************************************************)
(* Properties of a run (Spec).                                             *)
(***************************************************************************)
\* fetch_items has returned
Returned == pc \in {"build", "written"}

ListingFields == {"title", "link", "guid", "image", "mime"}

\* the fields the listing pass gave an item
Listing(it) == [f \in ListingFields |-> it[f]]

\* the positions of its that hold the first item of their link
FirstIdx(its) ==
    {k \in 1..Len(its) : \A j \in 1..(k - 1) : its[j].link # its[k].link}

\* its with every later item of a link already seen removed
FirstSeq(its) ==
    LET F == FirstIdx(its)
    IN  [i \in 1..Cardinality(F) |->
            its[CHOOSE k \in F : Cardinality({j \in F : j <= k}) = i]]

Prefix(seq, n) == [i \in 1..(IF Len(seq) < n THEN Len(seq) ELSE n) |-> seq[i]]

RECURSIVE Flatten(_)
Flatten(seqs) == IF seqs = <<>> THEN <<>> ELSE seqs[1] \o Flatten(Tail(seqs))

\* <<s, d>>: selector s matches the anchor at document position d
Matches(anchors) ==
    {o \in (1..Len(ARTICLE_LINK_SELECTORS)) \X (1..Len(anchors)) :
        SelMatches(ARTICLE_LINK_SELECTORS[o[1]], anchors[o[2]])}

\* strategy order, then document order
Before(o1, o2) == o1[1] < o2[1] \/ (o1[1] = o2[1] /\ o1[2] <= o2[2])

\* the first match that carries href h
FirstMatch(anchors, h) ==
    CHOOSE o \in Matches(anchors) :
        /\ anchors[o[2]].href = h
        /\ \A q \in Matches(anchors) : anchors[q[2]].href = h => Before(o, q)

\* the hrefs of the anchors of a page
Hrefs(anchors) == {anchors[d].href : d \in 1..Len(anchors)}

\* the hrefs of a page that are carried by an anchor some selector matches
\* and that match ID_LINK
ArticleHrefs(anchors) ==
    {h \in Hrefs(anchors) :
        /\ \E s \in 1..Len(ARTICLE_LINK_SELECTORS), d \in 1..Len(anchors) :
              SelMatches(ARTICLE_LINK_SELECTORS[s], anchors[d]) /\ anchors[d].href = h
        /\ IdLinkMatch(h)}

\* the items a page is to yield: one per article href, made from the first
\* match of the href, in the order of those first matches
ScanOf(anchors) ==
    LET H == ArticleHrefs(anchors)
        rank(h) == Cardinality({g \in H :
                       Before(FirstMatch(anchors, g), FirstMatch(anchors, h))})
    IN  [i \in 1..Cardinality(H) |->
            MakeItem(anchors[FirstMatch(anchors, CHOOSE h \in H : rank(h) = i)[2]])]

\* ScanOf and ArticleHrefs of every listing page
ScanOfPage == [anchors \in ListingPages |-> ScanOf(anchors)]

ArticleHrefsOfPage == [anchors \in ListingPages |-> ArticleHrefs(anchors)]

\* items is the scan: the pages in the order of SOURCE_URLS, each fetched page
\* giving its items in strategy-then-document order
ItemsAreTheScan ==
    /\ Len(pagelog) = NumPages
    /\ items = Flatten([p \in 1..Len(pagelog) |-> pagelog[p].items])
    /\ \A p \in 1..Len(pagelog) :
          pagelog[p].items =
              IF pagelog[p].ok THEN ScanOfPage[pagelog[p].anchors] ELSE <<>>

\* C1: in every run, the sequence fetch_items returns holds no two items
\* with the same link
C1_UniqueLinks ==
    Returned =>
        \A i, j \in 1..Len(result) : i # j => result[i].link # result[j].link

\* C1 witness: a returned sequence of two items from a scan with a repeated link
C1_Witness ==
    /\ pc = "written" /\ Len(result) >= 2
    /\ \E i, j \in 1..Len(items) : i # j /\ items[i].link = items[j].link

\* C2 as stated: the returned sequence is the scan with every later item of a
\* link removed (first item of a link kept, order of first occurrence)
C2_Original_WholeScan ==
    Returned =>
        /\ ItemsAreTheScan
        /\ [i \in 1..Len(result) |-> Listing(result[i])] = FirstSeq(items)

\* C2: the returned sequence is the first MAX_ITEMS items of the scan with
\* every later item of a link removed: the item kept for a link is the first
\* of the scan (its title and image), in the order of first occurrence
C2_FirstOccurrencePrefix ==
    Returned =>
        /\ ItemsAreTheScan
        /\ [i \in 1..Len(result) |-> Listing(result[i])]
               = Prefix(FirstSeq(items), max_items)

\* C2 witness: a link met twice with different titles, and more links than MAX_ITEMS
C2_Witness ==
    /\ pc = "written"
    /\ \E i, j \in 1..Len(items) :
          i < j /\ items[i].link = items[j].link /\ items[i].title # items[j].title
    /\ Len(FirstSeq(items)) > max_items

\* C3 as stated: every item at a position >= DETAIL_LIMIT of the deduplicated
\* sequence is in the result with its listing fields and no pubDate, no lead
C3_Original_AllPresent ==
    Returned =>
        \A i \in (detail_limit + 1)..Len(FirstSeq(items)) :
            i <= Len(result) /\ result[i] = FirstSeq(items)[i]

\* C3: details are fetched for positions 0..DETAIL_LIMIT-1 alone; an item at a
\* position >= DETAIL_LIMIT keeps its listing fields and has neither pubDate
\* nor lead, and it is in the result, at its position, iff the position is
\* below MAX_ITEMS
C3_BeyondCapUntouched ==
    Returned =>
        /\ Len(detlog) <= detail_limit
        /\ \A i \in (detail_limit + 1)..Len(FirstSeq(items)) :
              /\ unique[i] = FirstSeq(items)[i]
              /\ i <= max_items => i <= Len(result) /\ result[i] = unique[i]
              /\ i > max_items => i > Len(result)

\* C3 witness: an enriched item, and after it an item beyond the cap in the result
C3_Witness ==
    /\ pc = "written"
    /\ detail_limit < Len(result)
    /\ "lead" \in DOMAIN result[1]

\* the value of key k of an item, None when the item has no such key
Get(it, k) == IF k \in DOMAIN it THEN it[k] ELSE None

\* what the page w alone gives an item: <<pubDate, lead>>, None where not set
OwnDetails(w) ==
    LET r == fetch_article_details(w)
    IN  <<r.pub, IF r.lead # <<>> THEN r.lead ELSE None>>

OwnDetailsOfPage == [w \in RunPages |-> OwnDetails(w)]

\* C4: an item whose primary detail page could not be fetched stays at its
\* position with its listing fields and without pubDate and lead, and the
\* pubDate and lead of every item are those its own page gives, whatever
\* the fetches of the other items did
C4_FailureIsLocal ==
    Returned =>
        \A i \in 1..Len(result) :
            /\ Listing(result[i]) = FirstSeq(items)[i]
            /\ DOMAIN result[i] \subseteq ListingFields \cup {"pubDate", "lead"}
            /\ i <= Len(detlog) =>
                  /\ <<Get(result[i], "pubDate"), Get(result[i], "lead")>>
                         = OwnDetailsOfPage[detlog[i]]
                  /\ ~detlog[i].ok => DOMAIN result[i] = ListingFields

\* C4 witness: the fetch for the first item failed and the second item got a lead
C4_Witness ==
    /\ pc = "written" /\ Len(result) >= 2 /\ Len(detlog) >= 2
    /\ ~detlog[1].ok
    /\ "lead" \in DOMAIN result[2] /\ "pubDate" \in DOMAIN result[2]

\* C5 as stated: whatever the fetches do, the run ends with a feed document
\* (no run ends in an uncaught exception)
C5_RunProducesDocument == pc # "raised"

\* C6 as stated: a lead stored on an item has at most 800 characters plus the
\* ellipsis
C6_LeadBounded ==
    \A i \in 1..Len(unique) :
        "lead" \in DOMAIN unique[i] => TLen(unique[i].lead) <= MAX_CHARS + 1

\* C7: on a fetched listing page an href yields an item iff some selector
\* matches an anchor that carries it and it matches ID_LINK; it then yields
\* one item, whose link is the href joined to the site.  The pagination href
\* /news/w-p2 yields none, and an article under the fallback selector alone
\* yields one
C7_SelectorUnion ==
    \A p \in 1..Len(pagelog) :
        LET anchors == pagelog[p].anchors
            yielded == {pagelog[p].hrefs[i] : i \in 1..Len(pagelog[p].hrefs)}
        IN  pagelog[p].ok =>
              /\ yielded = ArticleHrefsOfPage[anchors]
              /\ Cardinality(yielded) = Len(pagelog[p].items)
              /\ \A i \in 1..Len(pagelog[p].items) :
                    pagelog[p].items[i].link = urljoin(pagelog[p].hrefs[i])
              /\ A_pager.href \notin yielded
              /\ A_plain.href \in Hrefs(anchors) => A_plain.href \in yielded

\* C7 witness: a page with an article only the fallback selector matches,
\* another under .bg-white, both yielded
C7_Witness ==
    \E p \in 1..Len(pagelog) :
        /\ pagelog[p].ok
        /\ \E i, j \in 1..Len(pagelog[p].hrefs) :
              /\ pagelog[p].hrefs[i] = A_plain.href
              /\ pagelog[p].hrefs[j] = A_small.href

\* C8: build_rss gives every item the pubDate of the item when it has one and
\* the build date (lastBuildDate) otherwise, and the items after build_rss
\* are the items fetch_items returned: none has gained a pubDate
C8_PubDateNotPersisted ==
    pc = "written" =>
        /\ doc.lastBuildDate \in BuildDates
        /\ Len(doc.entries) = Len(result)
        /\ \A i \in 1..Len(result) :
              doc.entries[i].pubDate =
                  IF "pubDate" \in DOMAIN result[i] THEN result[i].pubDate
                  ELSE doc.lastBuildDate
        /\ result = Truncate(unique, max_items)

\* C8 witness: a document with an item that has a pubDate and one that has none
C8_Witness ==
    /\ pc = "written"
    /\ \E i, j \in 1..Len(result) :
          "pubDate" \in DOMAIN result[i] /\ "pubDate" \notin DOMAIN result[j]

(***************************************************************************)
(* Properties of fetch_article_details (DetailSpec).  What each source of  *)
(* the page d_w offers, read off the page.                                 *)
(***************************************************************************)
SrcJsonLd == extract_from_jsonld(d_w.jsonld)

\* the date and the lead (longer than 60) of the primary page's JSON-LD
OfferJPub == SrcJsonLd.pub

OfferJLead ==
    IF SrcJsonLd.lead # <<>> /\ TLen(SrcJsonLd.lead) > MIN_LEAD
    THEN SrcJsonLd.lead ELSE <<>>

\* the date and the lead (longer than 60) of an AMP page that can be fetched
OfferAPub ==
    IF d_w.amp = "ok" THEN extract_from_jsonld(d_w.amp_jsonld).pub ELSE None

OfferALead ==
    LET a == build_lead_from_paras(d_w.amp_paras, MAX_CHARS)
    IN  IF d_w.amp = "ok" /\ a # <<>> /\ TLen(a) > MIN_LEAD THEN a ELSE <<>>

\* the publish-time meta tag, the date element, the paragraphs, the description
OfferMPub == IF d_w.meta_date # None THEN IsoToRfc(d_w.meta_date) ELSE None

OfferEPub == IF d_w.date_el # None THEN parse_polish_date(d_w.date_el) ELSE None

OfferPLead == build_lead_from_paras(d_w.paras, MAX_CHARS)

OfferDLead == Strip(d_w.meta_desc)

\* the first value of a sequence that is not the missing value
FirstGiven(seq, missing) ==
    IF \E i \in 1..Len(seq) : seq[i] # missing
    THEN seq[CHOOSE i \in 1..Len(seq) :
                 seq[i] # missing /\ \A j \in 1..(i - 1) : seq[j] = missing]
    ELSE missing

\* the lead the chain selects before the clean-up
SelectedLead == FirstGiven(<<OfferJLead, OfferALead, OfferPLead, OfferDLead>>, <<>>)

\* what the primary page's paragraphs give, or else its description
FallbackLead == IF OfferPLead # <<>> THEN OfferPLead ELSE OfferDLead

\* the lead passes the clean-up: not empty, and 80 characters or more or
\* ending in terminal punctuation
Survives(t) ==
    LET c == Collapse(t)
    IN  c # <<>> /\ (TLen(c) >= TEASER_LEN \/ EndsTerminal(c))

Consulted(e) == \E i \in 1..Len(d_log) : d_log[i] = e

\* 1: JSON-LD of the primary page, 2: the AMP page, 3: meta tags and text
Priority(e) ==
    CASE e = "fetch_primary" -> 0
      [] e = "jsonld" -> 1
      [] e \in {"fetch_amp", "amp_date", "amp_lead"} -> 2
      [] OTHER -> 3

\* C9: the sources are consulted in the order JSON-LD, AMP page, meta and
\* text of the primary page; a source is consulted for the date (the lead)
\* only when every source before it left the date (the lead) missing; the
\* AMP page is fetched only after the primary page was fetched, and only
\* when JSON-LD left the date or the lead missing; the date returned is that
\* of the first source that offers one, and a lead returned is that of the
\* first source that offers one
C9_PriorityChain ==
    /\ \A i, j \in 1..Len(d_log) : i < j => Priority(d_log[i]) <= Priority(d_log[j])
    /\ Consulted("fetch_amp") =>
          /\ d_w.ok /\ d_log[1] = "fetch_primary"
          /\ OfferJPub = None \/ OfferJLead = <<>>
    /\ Consulted("amp_date") => OfferJPub = None
    /\ Consulted("amp_lead") => OfferJLead = <<>>
    /\ Consulted("meta_date") => OfferJPub = None /\ OfferAPub = None
    /\ Consulted("date_el") => OfferJPub = None /\ OfferAPub = None /\ OfferMPub = None
    /\ Consulted("paras") => OfferJLead = <<>> /\ OfferALead = <<>>
    /\ Consulted("meta_desc") =>
          OfferJLead = <<>> /\ OfferALead = <<>> /\ OfferPLead = <<>>
    /\ d_pc = "ret" /\ d_w.ok =>
          /\ d_pub = FirstGiven(<<OfferJPub, OfferAPub, OfferMPub, OfferEPub>>, None)
          /\ d_lead \in {<<>>, Collapse(SelectedLead)}
    /\ d_pc = "ret" /\ ~d_w.ok =>
          d_pub = None /\ d_lead = <<>> /\ d_log = <<"fetch_primary">>

\* C9 witness: JSON-LD gave the date alone, the AMP page was fetched and gave
\* the lead, and the primary page's paragraphs were never read
C9_Witness ==
    /\ d_pc = "ret"
    /\ OfferJPub # None /\ OfferJLead = <<>>
    /\ Consulted("fetch_amp") /\ Consulted("amp_lead") /\ ~Consulted("amp_date")
    /\ d_lead = OfferALead /\ d_lead # <<>>
    /\ OfferPLead # <<>> /\ ~Consulted("paras")

\* C10 as stated: for a fetched page, when the primary page's paragraphs (or
\* else its description) give a lead that passes the teaser test, a lead is
\* returned, also when a source before them gave a lead the clean-up drops
C10_Original_FallbackAlwaysUsed ==
    d_pc = "ret" /\ d_w.ok /\ Survives(FallbackLead) => d_lead # <<>>

\* C10: for a fetched page a lead is returned exactly when the lead the chain
\* selects (the first of: JSON-LD lead over 60, AMP lead over 60, paragraphs
\* of the primary page, its description) passes the teaser test; when no
\* source before them gave a lead, the paragraphs (or else the description)
\* that pass are the lead returned
C10_SelectedLeadDecides ==
    d_pc = "ret" /\ d_w.ok =>
        /\ d_lead # <<>> <=> Survives(SelectedLead)
        /\ OfferJLead = <<>> /\ OfferALead = <<>> /\ Survives(FallbackLead) =>
              d_lead = Collapse(FallbackLead)

\* C10 witness: JSON-LD carried a text of 60 characters or fewer, the AMP page
\* gave nothing, and the paragraphs of the primary page are the lead returned
C10_Witness ==
    /\ d_pc = "ret" /\ d_w.ok
    /\ SrcJsonLd.lead # <<>> /\ OfferJLead = <<>>
    /\ Consulted("fetch_amp") /\ OfferALead = <<>>
    /\ Survives(OfferPLead)
    /\ d_lead = Collapse(OfferPLead)

====
